---- MODULE Spec2Model ----
(***************************************************************************)
(* A model of planning_csps: the encoder of a finite-horizon planning      *)
(* problem into a CSP (encoder.py), the generate-and-test solver (csp.py)  *)
(* and the filtering solver (csp_backtracking.py).                         *)
(*                                                                         *)
(* Conventions.  A ground fluent is a tuple of strings.  A CSP variable is *)
(* a tuple <<step, name>> or <<step, name, arg>>.  Every value is a        *)
(* string: "True" and "False" for the Python booleans, the constant's name *)
(* for an attribute value, the action's name for an action object.  An     *)
(* Assignment object is modelled by the contents it has once _encode has   *)
(* returned, which is when both solvers read it.  Iterating a Python set   *)
(* has no specified order: every such iteration takes an order as a        *)
(* parameter and the actions draw it with \E.                              *)
(***************************************************************************)
EXTENDS Integers, Sequences, FiniteSets, TLC

\* Bounds of the model.
MaxLen == 1
MaxActions == 2

\* Python's None, as a variable and as a value.
NoneVar == <<>>
NoneVal == "None"

--------------------------------------------------------------------------
(* Generic helpers *)

RECURSIVE Flatten(_)
Flatten(ss) == IF Len(ss) = 0 THEN <<>> ELSE Head(ss) \o Flatten(Tail(ss))

\* The elements of set S in the iteration order `order` (a sequence that
\* enumerates a superset of S without repetition).
Iter(S, order) == SelectSeq(order, LAMBDA x : x \in S)

Perms(S) ==
    {s \in [1..Cardinality(S) -> S] :
        \A i, k \in 1..Cardinality(S) : i # k => s[i] # s[k]}

Last(s) == s[Len(s)]

--------------------------------------------------------------------------
(* The planning model handed to the encoder (the external loader's data)  *)

AtA == <<"at", "r", "A">>
AtB == <<"at", "r", "B">>
Pr == <<"p", "r">>
Adj == <<"adjacent", "A", "B">>
Universe == {AtA, AtB, Pr, Adj}

Action(n, pre, pos, neg) ==
    [name |-> n, precondition_pos |-> pre, effect_pos |-> pos,
     effect_neg |-> neg]

ActionPool ==
    << Action("move", {AtA}, {AtB}, {AtA}),
       Action("back", {AtB}, {AtA}, {AtB}),
       Action("setp", {}, {Pr}, {}),
       Action("noop", {Pr}, {Pr}, {}),
       Action("jump", {}, {AtB, Pr}, {}),
       Action("carry", {AtA, Pr}, {AtB}, {Pr}),
       Action("go", {AtA, Adj}, {AtB}, {AtA}) >>

FluentsOf(a) == a.precondition_pos \cup a.effect_pos \cup a.effect_neg

FluentSets == {{AtA, AtB, Pr}, {AtA, AtB}, {Pr}, {AtA, AtB, Adj}}

\* Lists of at most MaxActions distinct pool actions over the fluents F.
ActionLists(F) ==
    {Iter(S, ActionPool) :
        S \in {T \in SUBSET {ActionPool[i] : i \in 1..Len(ActionPool)} :
                  /\ Cardinality(T) <= MaxActions
                  /\ \A a \in T : FluentsOf(a) \subseteq F}}

\* A state gives every attribute one value; a goal at most one.
AtValues(s) == Cardinality(s \cap {AtA, AtB})
InitialStates(F) == {s \in SUBSET F : AtValues(s) = IF AtA \in F THEN 1 ELSE 0}
GoalStates(F) == {s \in SUBSET F : AtValues(s) <= 1}

Problems ==
    UNION {{[fluents |-> F, actions |-> as, initial_state |-> i,
             goal_state |-> g] :
               as \in ActionLists(F), i \in InitialStates(F),
               g \in GoalStates(F)} : F \in FluentSets}

--------------------------------------------------------------------------
(* encoder.py *)

Assignment(var, val) == [variable |-> var, value |-> val]

\* Python's `x in t` for a tuple of strings t.
IsIn(x, t) == \E i \in 1..Len(t) : t[i] = x

\* `'act' in variable`: the step, an integer, never equals a string.
HasAct(v) == \E i \in 2..Len(v) : v[i] = "act"

NoOpNever(a) == FALSE
NoOp(a) == a.effect_pos \subseteq a.precondition_pos

\* The variable and the value a ground fluent denotes at a step.
FluentVar(step, t) ==
    IF Len(t) = 2 THEN <<step, t[1]>>
    ELSE IF Len(t) = 3 THEN <<step, t[1], t[2]>>
    ELSE NoneVar

FluentVal(t) ==
    IF Len(t) = 2 THEN "True" ELSE IF Len(t) = 3 THEN t[3] ELSE NoneVal

FluentAssignment(step, t) == Assignment(FluentVar(step, t), FluentVal(t))

StateVariables(fluents, L) ==
    {FluentVar(j, f) : j \in 0..L, f \in {g \in fluents : Len(g) \in {2, 3}}}

ActVariables(L) == {<<j, "act">> : j \in 0..(L - 1)}

Variables(fluents, L) == StateVariables(fluents, L) \cup ActVariables(L)

ActDomain(actions) ==
    {actions[i].name : i \in {k \in 1..Len(actions) : ~NoOp(actions[k])}}

DomainOfTrueOnly(v, fluents, actions, L) ==
    (IF \E f \in fluents : Len(f) = 2 /\ v = <<v[1], f[1]>>
        THEN {"True"} ELSE {})
    \cup {f[3] : f \in {g \in fluents : Len(g) = 3 /\ v = <<v[1], g[1], g[2]>>}}
    \cup (IF v = <<v[1], "act">> /\ v[1] < L THEN ActDomain(actions) ELSE {})
DomainOf(v, fluents, actions, L) ==
    (IF \E f \in fluents : Len(f) = 2 /\ v = <<v[1], f[1]>>
        THEN {"True", "False"} ELSE {})
    \cup {f[3] : f \in {g \in fluents : Len(g) = 3 /\ v = <<v[1], g[1], g[2]>>}}
    \cup (IF v = <<v[1], "act">> /\ v[1] < L THEN ActDomain(actions) ELSE {})

Domains(fluents, actions, L) ==
    [v \in Variables(fluents, L) |-> DomainOf(v, fluents, actions, L)]

variables_at_step(vars, step) ==
    {v \in vars : v[1] = step /\ v[2] # "act"}

\* 2. Initial-state and goal-state constraints, one 1-tuple per fluent.
BoundaryConstraints(states, step, fo) ==
    LET s == Iter({x \in states : ~IsIn("adjacent", x)}, fo)
    IN  [i \in 1..Len(s) |-> << FluentAssignment(step, s[i]) >>]

\* 3. What one pass of the j loop appends to the running tuple.
ActionBlock(a, j, fo) ==
    LET pre == Iter({x \in a.precondition_pos : ~IsIn("adjacent", x)}, fo)
        pos == Iter(a.effect_pos, fo)
        neg == Iter({x \in a.effect_neg : Len(x) <= 2}, fo)
    IN  << Assignment(<<j, "act">>, a.name) >>
        \o [i \in 1..Len(pre) |-> FluentAssignment(j, pre[i])]
        \o [i \in 1..Len(pos) |-> FluentAssignment(j + 1, pos[i])]
        \o [i \in 1..Len(neg) |-> Assignment(<<j + 1, neg[i][1]>>, "False")]

\* The tuple is created before the j loop and never reset: the constraint
\* appended at step j holds the blocks of steps 0..j.
ActionConstraints(a, L, fo) ==
    [n \in 1..L |-> Flatten([k \in 1..n |-> ActionBlock(a, k - 1, fo)])]

ActionsConstraints(actions, L, fo) ==
    Flatten([i \in 1..Len(actions) |->
                IF NoOp(actions[i]) THEN <<>>
                ELSE ActionConstraints(actions[i], L, fo)])

EffectVars(a, j) ==
    {FluentVar(j, p) :
        p \in {x \in a.effect_pos \cup a.effect_neg : Len(x) \in {2, 3}}}

\* 4. The successive contents written to assignment_bef / assignment_aft
\* for one action and one step, in the order the loops write them.  vo is
\* the iteration order of the invariants, do the one of a domain.
FrameWrites(a, j, vars, doms, vo, do) ==
    LET inv == Iter(variables_at_step(vars, j) \ EffectVars(a, j), vo[j])
        OfInvariant(x) ==
            IF Len(x) = 2 THEN
                [i \in 1..2 |->
                    LET value == <<"True", "False">>[i]
                    IN  [bef |-> Assignment(<<x[1], x[2]>>, value),
                         aft |-> Assignment(<<x[1] + 1, ToString(x[1])>>,
                                            value)]]
            ELSE IF Len(x) = 3 THEN
                LET vals == Iter(doms[x], do)
                IN  [i \in 1..Len(vals) |->
                        [bef |-> Assignment(<<x[1], x[2], x[3]>>, vals[i]),
                         aft |-> Assignment(<<x[1] + 1, x[2], x[3]>>,
                                            vals[i])]]
            ELSE <<>>
    IN  Flatten([i \in 1..Len(inv) |-> OfInvariant(inv[i])])

\* Every tuple of one (action, step) holds the same two objects
\* assignment_bef and assignment_aft, so all of them show the last write.
FrameConstraints(a, j, vars, doms, vo, do) ==
    LET w == FrameWrites(a, j, vars, doms, vo, do)
    IN  [i \in 1..Len(w) |->
            << Assignment(<<j, "act">>, a.name), Last(w).bef, Last(w).aft >>]

FrameAxioms(actions, L, vars, doms, vo, do) ==
    Flatten([i \in 1..Len(actions) |->
                IF NoOp(actions[i]) THEN <<>>
                ELSE Flatten([n \in 1..L |->
                        FrameConstraints(actions[i], n - 1, vars, doms,
                                         vo, do)])])

\* Encoder._encode: the CSP of planning problem pp and plan length L.
encode(pp, L, fo, vo, do) ==
    LET vars == Variables(pp.fluents, L)
        doms == Domains(pp.fluents, pp.actions, L)
    IN  [variables |-> vars,
         domains |-> doms,
         constraints |->
            BoundaryConstraints(pp.initial_state, 0, fo)
            \o BoundaryConstraints(pp.goal_state, L, fo)
            \o ActionsConstraints(pp.actions, L, fo)
            \o FrameAxioms(pp.actions, L, vars, doms, vo, do)]

\* The iteration orders one run can show.
FluentOrders == Perms(Universe)
ValueOrders == Perms({"A", "B"})
\* One order of the state variables of each step 0..L-1.
VariableOrders(vars, L) ==
    {f \in [0..(L - 1) ->
               UNION {Perms(variables_at_step(vars, j)) : j \in 0..(L - 1)}] :
        \A j \in 0..(L - 1) : f[j] \in Perms(variables_at_step(vars, j))}

--------------------------------------------------------------------------
(* csp.py *)

\* A Constraint object: its class, the tuple it was built from, and the
\* variables of that tuple's assignments, in order.
Constraint(kind, tuple) ==
    [kind |-> kind, constraints |-> tuple,
     variables |-> [i \in 1..Len(tuple) |-> tuple[i].variable]]

Assigned(assignments, var) == var \in DOMAIN assignments

UnarySatisfied(c, assignments, variable) ==
    LET constraint == c.constraints[1]
    IN  IF constraint.variable # variable THEN TRUE
        ELSE constraint.value = assignments[variable]

ActionsSatisfiedEager(c, assignments, variable) ==
    LET constraint1 == c.constraints[1]
        constraint2 == c.constraints[2]
    IN  IF variable = constraint1.variable THEN
            IF assignments[variable] # constraint1.value THEN TRUE
            ELSE IF Assigned(assignments, constraint2.variable)
                 THEN assignments[constraint2.variable] = constraint2.value
                 ELSE FALSE
        ELSE IF variable = constraint2.variable THEN
            IF Assigned(assignments, constraint1.variable)
            THEN IF assignments[constraint1.variable] = constraint1.value
                 THEN assignments[variable] = constraint2.value
                 ELSE TRUE
            ELSE TRUE
        ELSE FALSE
ActionsSatisfiedStrict(c, assignments, variable) ==
    LET constraint1 == c.constraints[1]
        constraint2 == c.constraints[2]
    IN  IF variable = constraint1.variable THEN
            IF assignments[variable] # constraint1.value THEN TRUE
            ELSE IF Assigned(assignments, constraint2.variable)
                 THEN assignments[constraint2.variable] = constraint2.value
                 ELSE TRUE
        ELSE IF variable = constraint2.variable THEN
            assignments[variable] = constraint2.value
        ELSE FALSE
\* Falling off the end returns None, which `not` treats as False: FALSE.
ActionsSatisfied(c, assignments, variable) ==
    LET constraint1 == c.constraints[1]
        constraint2 == c.constraints[2]
    IN  IF variable = constraint1.variable THEN
            IF assignments[variable] # constraint1.value THEN TRUE
            ELSE IF Assigned(assignments, constraint2.variable)
                 THEN assignments[constraint2.variable] = constraint2.value
                 ELSE TRUE
        ELSE IF variable = constraint2.variable THEN
            IF Assigned(assignments, constraint1.variable)
            THEN IF assignments[constraint1.variable] = constraint1.value
                 THEN assignments[variable] = constraint2.value
                 ELSE TRUE
            ELSE TRUE
        ELSE FALSE

FrameAxiomsSatisfied(c, assignments, variable) ==
    LET constraint1 == c.constraints[1]
        constraint2 == c.constraints[2]
        constraint3 == c.constraints[3]
    IN  IF HasAct(variable) THEN TRUE
        ELSE IF ~Assigned(assignments, constraint1.variable) THEN TRUE
        ELSE IF assignments[constraint1.variable] # constraint1.value THEN TRUE
        ELSE IF variable = constraint2.variable THEN
            IF assignments[constraint2.variable] # constraint2.value THEN TRUE
            ELSE IF ~Assigned(assignments, constraint3.variable) THEN TRUE
            ELSE assignments[constraint3.variable] = constraint3.value
        ELSE IF variable = constraint3.variable THEN
            IF assignments[constraint3.variable] # constraint3.value THEN TRUE
            ELSE IF ~Assigned(assignments, constraint2.variable) THEN TRUE
            ELSE assignments[constraint2.variable] = constraint2.value
        ELSE TRUE

satisfied(c, assignments, variable) ==
    IF c.kind = "Unary" THEN UnarySatisfied(c, assignments, variable)
    ELSE IF c.kind = "Actions" THEN ActionsSatisfied(c, assignments, variable)
    ELSE FrameAxiomsSatisfied(c, assignments, variable)

\* CSP.consistent
consistent(constraints, variable, assignment) ==
    \A i \in 1..Len(constraints[variable]) :
        satisfied(constraints[variable][i], assignment, variable)

\* CSP.add_constraint: the constraint is appended under each of its
\* variables in turn, up to the first one the CSP does not have.
UnknownFirst(c, variables) ==
    {i \in 1..1 : c.variables[i] \notin variables}
Unknown(c, variables) ==
    {i \in 1..Len(c.variables) : c.variables[i] \notin variables}

Registered(c, variables) ==
    IF Unknown(c, variables) = {} THEN Len(c.variables)
    ELSE (CHOOSE i \in Unknown(c, variables) :
             \A k \in Unknown(c, variables) : i <= k) - 1

add_constraint(constraints, c, variables) ==
    [v \in DOMAIN constraints |->
        constraints[v]
        \o [k \in 1..Cardinality({i \in 1..Registered(c, variables) :
                                     c.variables[i] = v}) |-> c]]

\* The class the __main__ block picks for a tuple of the encoder.
KindOf(constr) ==
    IF Len(constr) = 1 THEN "Unary"
    ELSE IF Len(constr) = 2 THEN "Actions"
    ELSE IF Len(constr) = 3 THEN "FrameAxioms"
    ELSE "ValueError"

\* The values a loop over the set todo may take first.  A set of strings
\* or of action objects iterates in an order that differs from run to run;
\* a set of booleans iterates False first (hash(False) = 0, hash(True) = 1).
FirstValues(todo) == IF "False" \in todo THEN {"False"} ELSE todo

\* The variables the search may pick next: the unassigned ones of the
\* smallest step (the sort by tup[0] is stable, so the order inside a
\* step is the set's iteration order).
Unassigned(variables, assignment) == variables \ DOMAIN assignment

FirstCandidatesAny(variables, assignment) ==
    Unassigned(variables, assignment)
FirstCandidates(variables, assignment) ==
    {v \in Unassigned(variables, assignment) :
        \A w \in Unassigned(variables, assignment) : v[1] <= w[1]}

--------------------------------------------------------------------------
(* csp_backtracking.py *)

\* The eager pass over the 1-tuples, from tuple i on: each one's assignment
\* is appended and its variable removed from the set, which raises
\* KeyError when the variable is no longer (or never was) in it.
RECURSIVE UnaryPass(_, _, _, _)
UnaryPass(constraints, i, assignments, unassigned) ==
    IF i > Len(constraints)
    THEN [assignments |-> assignments, unassigned |-> unassigned,
          raised |-> FALSE]
    ELSE IF Len(constraints[i]) # 1
    THEN UnaryPass(constraints, i + 1, assignments, unassigned)
    ELSE IF constraints[i][1].variable \notin unassigned
    THEN [assignments |-> Append(assignments, constraints[i][1]),
          unassigned |-> unassigned, raised |-> TRUE]
    ELSE UnaryPass(constraints, i + 1,
                   Append(assignments, constraints[i][1]),
                   unassigned \ {constraints[i][1].variable})

variable_in_constraint(variable, constraint, assignments) ==
    /\ \E i \in 1..Len(constraint) : constraint[i].variable = variable
    /\ \E i \in 1..Len(constraint), k \in 1..Len(assignments) :
          constraint[i].variable = assignments[k].variable

get_relevant_constraints(variable, assignments, constraints) ==
    SelectSeq(constraints,
              LAMBDA c : variable_in_constraint(variable, c, assignments))

\* _get_updated_domains.  With a relevant constraint at hand the first
\* Assignment(variable, value) raises TypeError, the class taking no
\* arguments; that needs a value, so an empty domain comes back empty.
get_updated_domains(variable, domains, assignments, constraints) ==
    IF get_relevant_constraints(variable, assignments, constraints) = <<>>
    THEN [raised |-> FALSE, updated |-> domains]
    ELSE IF domains # {}
    THEN [raised |-> TRUE, updated |-> {}]
    ELSE [raised |-> FALSE, updated |-> {}]

\* What the body of __call__ does once the arguments are set, for each
\* variable the pop may take: return the assignments, raise, return None,
\* or start the loop over the updated domain.
Outcomes(c, assignments, unassigned) ==
    IF unassigned = {} THEN {[kind |-> "return", variable |-> NoneVar,
                              updated |-> {}]}
    ELSE {LET u == get_updated_domains(variable, c.domains[variable],
                                       assignments, c.constraints)
          IN  [kind |-> IF u.raised THEN "TypeError"
                        ELSE IF u.updated = {} THEN "None" ELSE "loop",
               variable |-> variable,
               updated |-> u.updated] : variable \in unassigned}

\* assignments.remove(assgn): Assignment defines no __eq__, so the object
\* itself is removed, and it is the last one of the list.
Remove(assignments) == SubSeq(assignments, 1, Len(assignments) - 1)

Snapshot(assignments, unassigned) ==
    [assignments |-> assignments, unassigned |-> unassigned]

--------------------------------------------------------------------------
VARIABLES
    planning_problem,   \* Encoder._planning_problem
    plan_length,        \* Encoder._plan_length
    csp,                \* Encoder._csp
    pc,                 \* where the run is
    solver,             \* the csp.CSP object of csp.py
    next_constr,        \* index of the next tuple the __main__ loop takes
    order,              \* iteration order of solver.variables, as found
    stack,              \* the active calls of backtracking_search
    result,             \* how csp.py ended
    solution,           \* what backtracking_search returned
    assignments,        \* the list BacktrackAlgorithm.__call__ works on
    bt_stack,           \* the active calls of __call__ that are in a loop
    bt_result,          \* how csp_backtracking.py ended
    failed_branch,      \* the state before and after the last failed branch
    objects,            \* the Assignment objects made so far, in order
    tested              \* the last comparison of Assignment objects

vars == <<planning_problem, plan_length, csp, pc, solver, next_constr,
          order, stack, result, solution, assignments, bt_stack, bt_result,
          failed_branch, objects, tested>>

input == <<planning_problem, plan_length>>
naive == <<solver, next_constr, order, stack, result, solution>>
filter == <<assignments, bt_stack, bt_result, failed_branch>>
heap == <<objects, tested>>

NoTest == [kind |-> "none"]

NoCSP == [variables |-> {}, domains |-> <<>>, constraints |-> <<>>]

Init ==
    /\ planning_problem \in Problems
    /\ plan_length \in 0..MaxLen
    /\ csp = NoCSP
    /\ pc = "encode"
    /\ solver = NoCSP
    /\ next_constr = 1
    /\ order = <<>>
    /\ stack = <<>>
    /\ result = "running"
    /\ solution = <<>>
    /\ assignments = <<>>
    /\ bt_stack = <<>>
    /\ bt_result = "running"
    /\ failed_branch = [seen |-> FALSE, before |-> Snapshot(<<>>, {}),
                        after |-> Snapshot(<<>>, {})]
    /\ objects = <<>>
    /\ tested = NoTest

\* Encoder.__init__
Encode ==
    /\ pc = "encode"
    /\ \E fo \in FluentOrders, do \in ValueOrders,
          vo \in VariableOrders(StateVariables(planning_problem.fluents,
                                               plan_length), plan_length) :
          csp' = encode(planning_problem, plan_length, fo, vo, do)
    /\ pc' = "construct"
    /\ UNCHANGED <<heap, input, naive, filter>>

\* CSP.__init__ of csp.py
Construct ==
    /\ pc = "construct"
    /\ solver' = [variables |-> csp.variables, domains |-> csp.domains,
                  constraints |-> [v \in csp.variables |-> <<>>]]
    /\ IF csp.variables \subseteq DOMAIN csp.domains
       THEN pc' = "dispatch" /\ result' = result
       ELSE pc' = "solved" /\ result' = "LookupError"
    /\ UNCHANGED <<heap, input, csp, next_constr, order, stack, solution,
                   filter>>

\* One pass of the __main__ loop of csp.py over encoder.csp.constraints.
AddConstraint ==
    /\ pc = "dispatch"
    /\ next_constr <= Len(csp.constraints)
    /\ LET constr == csp.constraints[next_constr]
           c == Constraint(KindOf(constr), constr)
       IN  IF KindOf(constr) = "ValueError"
           THEN /\ result' = "ValueError"
                /\ pc' = "solved"
                /\ UNCHANGED solver
           ELSE /\ solver' = [solver EXCEPT !.constraints =
                                add_constraint(@, c, solver.variables)]
                /\ IF Unknown(c, solver.variables) = {}
                   THEN pc' = pc /\ result' = result
                   ELSE pc' = "solved" /\ result' = "LookupError"
    /\ next_constr' = next_constr + 1
    /\ UNCHANGED <<heap, input, csp, order, stack, solution, filter>>

CallEarly(assignment, calls) ==
    IF Cardinality(DOMAIN assignment) >= Cardinality(solver.variables) - 1
    THEN /\ solution' = assignment
         /\ result' = "solution"
         /\ stack' = <<>>
         /\ pc' = "solved"
         /\ order' = <<>>
    ELSE /\ \E first \in FirstCandidates(solver.variables, assignment) :
              /\ IF Len(order) > Cardinality(DOMAIN assignment)
                 THEN first = order[Cardinality(DOMAIN assignment) + 1]
                      /\ order' = order
                 ELSE order' = Append(order, first)
              /\ stack' = Append(calls,
                                 [assignment |-> assignment,
                                  first |-> first,
                                  todo |-> solver.domains[first]])
         /\ pc' = "search"
         /\ UNCHANGED <<solution, result>>
\* Entering backtracking_search(assignment) with the active calls `calls`:
\* either the assignment is complete and every caller returns it, or the
\* call takes its first unassigned variable and starts its loop.
Call(assignment, calls) ==
    IF Cardinality(DOMAIN assignment) = Cardinality(solver.variables)
    THEN /\ solution' = assignment
         /\ result' = "solution"
         /\ stack' = <<>>
         /\ pc' = "solved"
         /\ order' = <<>>
    ELSE /\ \E first \in FirstCandidates(solver.variables, assignment) :
              /\ IF Len(order) > Cardinality(DOMAIN assignment)
                 THEN first = order[Cardinality(DOMAIN assignment) + 1]
                      /\ order' = order
                 ELSE order' = Append(order, first)
              /\ stack' = Append(calls,
                                 [assignment |-> assignment,
                                  first |-> first,
                                  todo |-> solver.domains[first]])
         /\ pc' = "search"
         /\ UNCHANGED <<solution, result>>

\* solution = csp.backtracking_search(initial_assignments)
StartSearch ==
    /\ pc = "dispatch"
    /\ next_constr > Len(csp.constraints)
    /\ Call(<<>>, <<>>)
    /\ UNCHANGED <<heap, input, csp, solver, next_constr, filter>>

\* One pass of the loop over self.domains[first] in the innermost call.
TryValue ==
    /\ pc = "search"
    /\ stack # <<>>
    /\ LET top == Last(stack)
       IN  \E value \in FirstValues(top.todo) :
              LET local_assignment == top.assignment @@ (top.first :> value)
                  rest == [stack EXCEPT ![Len(stack)].todo = @ \ {value}]
              IN  IF consistent(solver.constraints, top.first,
                                local_assignment)
                  THEN Call(local_assignment, rest)
                  ELSE /\ stack' = rest
                       /\ UNCHANGED <<pc, order, solution, result>>
    /\ UNCHANGED <<heap, input, csp, solver, next_constr, filter>>

\* The loop of the innermost call is over: it returns None.
ReturnNone ==
    /\ pc = "search"
    /\ stack # <<>>
    /\ Last(stack).todo = {}
    /\ stack' = SubSeq(stack, 1, Len(stack) - 1)
    /\ IF Len(stack) = 1
       THEN pc' = "solved" /\ result' = "None" /\ order' = <<>>
       ELSE pc' = pc /\ result' = result /\ order' = order
    /\ UNCHANGED <<heap, input, csp, solver, next_constr, solution, filter>>

\* What follows outcome o of a call of __call__ entered with `asgs` and the
\* set `unassigned`, `calls` being the calls around it.
Apply(o, asgs, unassigned, calls) ==
    /\ csp' = [csp EXCEPT !.variables = unassigned \ {o.variable}]
    /\ IF o.kind = "return" THEN
            /\ assignments' = asgs
            /\ bt_stack' = <<>>
            /\ bt_result' = "solution"
            /\ pc' = "done"
            /\ UNCHANGED failed_branch
       ELSE IF o.kind = "TypeError" THEN
            /\ assignments' = asgs
            /\ bt_stack' = <<>>
            /\ bt_result' = "TypeError"
            /\ pc' = "done"
            /\ UNCHANGED failed_branch
       ELSE IF o.kind = "None" /\ calls = <<>> THEN
            /\ assignments' = asgs
            /\ bt_stack' = <<>>
            /\ bt_result' = "None"
            /\ pc' = "done"
            /\ UNCHANGED failed_branch
       ELSE IF o.kind = "None" THEN
            /\ assignments' = Remove(asgs)
            /\ bt_stack' = calls
            /\ failed_branch' =
                  [seen |-> TRUE, before |-> Last(calls).before,
                   after |-> Snapshot(Remove(asgs),
                                      unassigned \ {o.variable})]
            /\ pc' = "filter"
            /\ UNCHANGED bt_result
       ELSE /\ assignments' = asgs
            /\ bt_stack' = Append(calls,
                                  [variable |-> o.variable,
                                   todo |-> o.updated,
                                   before |-> Snapshot(<<>>, {})])
            /\ pc' = "filter"
            /\ UNCHANGED <<bt_result, failed_branch>>

\* solution = bt_algo(None, None): the set is the CSP's own variable set,
\* the list is filled from the 1-tuples, then the body runs.
BtStart ==
    /\ pc = "solved"
    /\ LET pre == UnaryPass(csp.constraints, 1, <<>>, csp.variables)
       IN  IF pre.raised
           THEN /\ csp' = [csp EXCEPT !.variables = pre.unassigned]
                /\ assignments' = pre.assignments
                /\ bt_result' = "KeyError"
                /\ pc' = "done"
                /\ UNCHANGED <<bt_stack, failed_branch>>
           ELSE \E o \in Outcomes(csp, pre.assignments, pre.unassigned) :
                   Apply(o, pre.assignments, pre.unassigned, <<>>)
    /\ UNCHANGED <<heap, input, naive>>

\* One pass of the loop over updated_domains in the innermost call: the
\* assignment is appended and __call__ is entered again.
BtTryValue ==
    /\ pc = "filter"
    /\ bt_stack # <<>>
    /\ LET top == Last(bt_stack)
       IN  \E value \in FirstValues(top.todo) :
              LET asgs == Append(assignments,
                                 Assignment(top.variable, value))
                  calls == [bt_stack EXCEPT ![Len(bt_stack)] =
                              [variable |-> top.variable,
                               todo |-> top.todo \ {value},
                               before |-> Snapshot(assignments,
                                                   csp.variables)]]
              IN  \E o \in Outcomes(csp, asgs, csp.variables) :
                     Apply(o, asgs, csp.variables, calls)
    /\ UNCHANGED <<heap, input, naive>>

\* The loop of the innermost call is over: it returns None, and its caller
\* removes the assignment it had appended.
BtReturnNone ==
    /\ pc = "filter"
    /\ bt_stack # <<>>
    /\ Last(bt_stack).todo = {}
    /\ LET calls == SubSeq(bt_stack, 1, Len(bt_stack) - 1)
       IN  /\ bt_stack' = calls
           /\ IF calls = <<>>
              THEN /\ bt_result' = "None"
                   /\ pc' = "done"
                   /\ UNCHANGED <<assignments, failed_branch>>
              ELSE /\ assignments' = Remove(assignments)
                   /\ failed_branch' =
                         [seen |-> TRUE, before |-> Last(calls).before,
                          after |-> Snapshot(Remove(assignments),
                                             csp.variables)]
                   /\ UNCHANGED <<bt_result, pc>>
    /\ UNCHANGED <<heap, input, naive, csp>>

Next ==
    \/ Encode
    \/ Construct
    \/ AddConstraint
    \/ StartSearch
    \/ TryValue
    \/ ReturnNone
    \/ BtStart
    \/ BtTryValue
    \/ BtReturnNone

Spec == Init /\ [][Next]_vars

--------------------------------------------------------------------------
(* csp.py on its own: a CSP built through CSP(variables, domains) and      *)
(* add_constraint by a caller that, like __main__, picks the class of each *)
(* tuple by its length.                                                    *)

MaxConstraints == 2

CspVariables == {<<0, "act">>, <<0, "x">>, <<1, "x">>}

CspDomains ==
    [v \in CspVariables |->
        IF HasAct(v) THEN {"a", "b"} ELSE {"True", "False"}]

CspAssignments ==
    UNION {{Assignment(v, x) : x \in CspDomains[v]} : v \in CspVariables}

\* 1-tuples; 2-tuples over two variables; 3-tuples of an action assignment
\* and two state variables.
CspTuples ==
    {<<a>> : a \in CspAssignments}
    \cup {t \in CspAssignments \X CspAssignments :
             t[1].variable # t[2].variable}
    \cup {t \in CspAssignments \X CspAssignments \X CspAssignments :
             /\ HasAct(t[1].variable)
             /\ ~HasAct(t[2].variable) /\ ~HasAct(t[3].variable)
             /\ t[2].variable # t[3].variable}

CspConstraintLists == UNION {[1..n -> CspTuples] : n \in 0..MaxConstraints}

NoProblem ==
    [fluents |-> {}, actions |-> <<>>, initial_state |-> {},
     goal_state |-> {}]

InitCsp ==
    /\ planning_problem = NoProblem
    /\ plan_length = 0
    /\ csp \in {[variables |-> CspVariables, domains |-> CspDomains,
                  constraints |-> cs] : cs \in CspConstraintLists}
    /\ pc = "construct"
    /\ solver = NoCSP
    /\ next_constr = 1
    /\ order = <<>>
    /\ stack = <<>>
    /\ result = "running"
    /\ solution = <<>>
    /\ assignments = <<>>
    /\ bt_stack = <<>>
    /\ bt_result = "running"
    /\ failed_branch = [seen |-> FALSE, before |-> Snapshot(<<>>, {}),
                        after |-> Snapshot(<<>>, {})]
    /\ objects = <<>>
    /\ tested = NoTest

NextCsp ==
    \/ Construct
    \/ AddConstraint
    \/ StartSearch
    \/ TryValue
    \/ ReturnNone

SpecCsp == InitCsp /\ [][NextCsp]_vars

--------------------------------------------------------------------------
(* What the claims speak of *)

\* The variables the encoder made (the filtering solver empties the set).
EncVariables == Variables(planning_problem.fluents, plan_length)

Encoded == pc # "encode"
CspFinished == pc \in {"solved", "filter", "done"}
Searched == CspFinished /\ result \in {"solution", "None"}

ActionList == {planning_problem.actions[i] :
                  i \in 1..Len(planning_problem.actions)}
NoOpAction(a) == a.effect_pos \subseteq a.precondition_pos
Static(t) == \E i \in 1..Len(t) : t[i] = "adjacent"

\* Every constraint registered with add_constraint accepts the assignment,
\* whichever of its variables it is asked about.
FullyConsistent(assignment) ==
    \A v \in solver.variables :
        \A i \in 1..Len(solver.constraints[v]) :
            satisfied(solver.constraints[v][i], assignment, v)

\* All total assignments of the variables in V, each to a value of its
\* domain.
RECURSIVE Totals(_, _)
Totals(V, domains) ==
    IF V = {} THEN {<<>>}
    ELSE LET v == CHOOSE x \in V : TRUE
         IN  {f @@ (v :> x) : f \in Totals(V \ {v}, domains),
                              x \in domains[v]}

SatisfyingTotals ==
    {t \in Totals(solver.variables, solver.domains) : FullyConsistent(t)}

\* Planning semantics.  A state maps the state variables of one step,
\* named without the step, to values.
Kinds == {Tail(v) : v \in StateVariables(planning_problem.fluents, 0)}
KindOfFluent(t) == Tail(FluentVar(0, t))
StateAt(assignment, j) == [k \in Kinds |-> assignment[<<j>> \o k]]
Dynamic(S) == {t \in S : ~Static(t)}
HoldsIn(state, t) == state[KindOfFluent(t)] = FluentVal(t)
Touched(a) == {KindOfFluent(t) : t \in a.effect_pos \cup a.effect_neg}

\* Action a leads from state s to state t.
Step(s, a, t) ==
    /\ \A x \in Dynamic(a.precondition_pos) : HoldsIn(s, x)
    /\ \A x \in a.effect_pos : HoldsIn(t, x)
    /\ \A x \in {y \in a.effect_neg : Len(y) = 2} :
          t[KindOfFluent(x)] = "False"
    /\ \A k \in Kinds \ Touched(a) : t[k] = s[k]

InitialOK(s) == \A x \in Dynamic(planning_problem.initial_state) : HoldsIn(s, x)
\* The initial state proper: a boolean fluent it does not list is false.
InitialState(s) ==
    /\ InitialOK(s)
    /\ \A x \in {y \in planning_problem.fluents : Len(y) = 2} :
          x \notin planning_problem.initial_state
             => s[KindOfFluent(x)] = "False"
GoalOK(s) == \A x \in Dynamic(planning_problem.goal_state) : HoldsIn(s, x)

ValidPlan(assignment) ==
    /\ InitialOK(StateAt(assignment, 0))
    /\ \A j \in 0..(plan_length - 1) :
          \E a \in ActionList :
             /\ a.name = assignment[<<j, "act">>]
             /\ Step(StateAt(assignment, j), a, StateAt(assignment, j + 1))
    /\ GoalOK(StateAt(assignment, plan_length))

States ==
    {s \in [Kinds -> {"True", "False", "A", "B"}] :
        \A k \in Kinds :
            s[k] \in DomainOf(<<0>> \o k, planning_problem.fluents, <<>>, 0)}

RECURSIVE Reach(_, _)
Reach(S, n) ==
    IF n = 0 THEN S
    ELSE Reach({t \in States :
                   \E s \in S, a \in ActionList :
                      ~NoOpAction(a) /\ Step(s, a, t)}, n - 1)

\* A plan of exactly plan_length actions, none a no-op, reaches the goal.
PlanExists ==
    \E s \in Reach({s \in States : InitialState(s)}, plan_length) : GoalOK(s)

\* The assignments list as a dictionary, when no variable occurs twice.
Occurrences(v) ==
    Cardinality({i \in 1..Len(assignments) : assignments[i].variable = v})
AsDict ==
    [v \in {assignments[i].variable : i \in 1..Len(assignments)} |->
        assignments[CHOOSE i \in 1..Len(assignments) :
                       assignments[i].variable = v].value]

--------------------------------------------------------------------------
(* The claims *)

\* C1: an assignment backtracking_search returns satisfies every
\* registered constraint, for every variable of the constraint.
C1_Soundness == Searched /\ result = "solution" => FullyConsistent(solution)

\* C2: an assignment the csp.py pipeline returns is a valid plan of
\* plan_length steps: initial state, preconditions, effects, frame, goal.
C2_PlanValid == Searched /\ result = "solution" => ValidPlan(solution)

\* C3: when a plan of plan_length >= 1 non-no-op actions exists, the csp.py
\* pipeline ends without raising and returns such a plan.
C3_PlanFound ==
    CspFinished /\ plan_length >= 1 /\ PlanExists
        => result = "solution" /\ ValidPlan(solution)

\* C4: after a failed branch of the filtering search the assignments list
\* and the unassigned set are what they were before the branch.
C4_Restored == failed_branch.seen => failed_branch.after = failed_branch.before

\* C5: a list the filtering search returns holds exactly one assignment
\* for every variable of the encoded CSP.
C5_FullAssignment ==
    bt_result = "solution"
        => /\ \A v \in EncVariables : Occurrences(v) = 1
           /\ \A i \in 1..Len(assignments) :
                 assignments[i].variable \in EncVariables

\* C6: backtracking_search returns None only when no total assignment
\* satisfies every registered constraint.
C6_Complete == Searched /\ result = "None" => SatisfyingTotals = {}

C6_Witness ==
    /\ pc = "solved" /\ result = "solution"
    /\ SatisfyingTotals # {}
    /\ SatisfyingTotals # Totals(solver.variables, solver.domains)
    /\ \E v \in solver.variables :
          \E i, k \in 1..Len(solver.constraints[v]) :
             /\ solver.constraints[v][i].kind = "Actions"
             /\ solver.constraints[v][k].kind = "FrameAxioms"

\* C7: the filtering search returns a solution exactly when the naive
\* search does, and what it returns is fully consistent for the naive one.
C7_Agree ==
    pc = "done" =>
        /\ (bt_result = "solution") = (result = "solution")
        /\ bt_result = "solution" =>
              /\ DOMAIN AsDict = solver.variables
              /\ FullyConsistent(AsDict)

\* C8: with plan length 0 and every goal fluent in the initial state, the
\* filtering search ends without error and returns the empty plan.
C8_EmptyPlan ==
    /\ pc = "done"
    /\ plan_length = 0
    /\ planning_problem.goal_state \subseteq planning_problem.initial_state
    => /\ bt_result = "solution"
       /\ \A i \in 1..Len(assignments) : ~HasAct(assignments[i].variable)
       /\ \A v \in EncVariables : ~HasAct(v)

BooleanVars ==
    {<<j, f[1]>> : j \in 0..plan_length,
                   f \in {g \in planning_problem.fluents : Len(g) = 2}}

\* C9 as stated: every variable has a non-empty domain, a boolean fluent
\* variable exactly {True, False}.
C9_AllNonEmpty ==
    Encoded =>
        \A v \in EncVariables :
            /\ v \in DOMAIN csp.domains
            /\ csp.domains[v] # {}
            /\ v \in BooleanVars => csp.domains[v] = {"True", "False"}

\* C9 as amended: every variable has a domain; a state variable's is
\* non-empty, a boolean fluent variable's exactly {True, False}; an action
\* variable's is the set of the actions that are no no-ops, empty or not.
C9_Domains ==
    Encoded =>
        \A v \in EncVariables :
            /\ v \in DOMAIN csp.domains
            /\ ~HasAct(v) => csp.domains[v] # {}
            /\ v \in BooleanVars => csp.domains[v] = {"True", "False"}
            /\ HasAct(v) =>
                  csp.domains[v] =
                     {a.name : a \in {b \in ActionList : ~NoOpAction(b)}}

C9_Witness ==
    /\ pc = "construct"
    /\ <<0, "act">> \in EncVariables
    /\ csp.domains[<<0, "act">>] = {}
    /\ BooleanVars # {}

\* C10: a no-op action is in the domain of no action variable and is the
\* value of no assignment to an action variable in any constraint.
C10_NoOpExcluded ==
    Encoded =>
        \A a \in {b \in ActionList : NoOpAction(b)} :
            /\ \A v \in DOMAIN csp.domains :
                  HasAct(v) => a.name \notin csp.domains[v]
            /\ \A i \in 1..Len(csp.constraints) :
                  \A k \in 1..Len(csp.constraints[i]) :
                     HasAct(csp.constraints[i][k].variable)
                        => csp.constraints[i][k].value # a.name

C10_Witness ==
    /\ pc = "construct"
    /\ plan_length >= 1
    /\ \E a, b \in ActionList : NoOpAction(a) /\ ~NoOpAction(b)
    /\ \E i \in 1..Len(csp.constraints) : Len(csp.constraints[i]) = 3

\* C11: the variable of every assignment in every constraint the encoder
\* made is a variable of the CSP.
C11_KnownVariables ==
    Encoded =>
        \A i \in 1..Len(csp.constraints) :
            \A k \in 1..Len(csp.constraints[i]) :
                csp.constraints[i][k].variable \in EncVariables

\* The binary constraints the actions of the problem call for: the choice
\* of the action at step j paired with one precondition at step j, or with
\* one positive or negative effect at step j + 1.
BinaryConstraints ==
    UNION {
        {<<Assignment(<<j, "act">>, a.name), FluentAssignment(j, x)>> :
            x \in Dynamic(a.precondition_pos)}
        \cup {<<Assignment(<<j, "act">>, a.name), FluentAssignment(j + 1, x)>> :
                 x \in a.effect_pos}
        \cup {<<Assignment(<<j, "act">>, a.name),
                Assignment(<<j + 1, x[1]>>, "False")>> :
                 x \in {y \in a.effect_neg : Len(y) = 2}}
        : a \in {b \in ActionList : ~NoOpAction(b)},
          j \in 0..(plan_length - 1)}

\* A tuple of the frame axioms' shape: an action, and one state variable
\* before and after.
FrameShaped(t) ==
    /\ Len(t) = 3
    /\ HasAct(t[1].variable)
    /\ Len(t[2].variable) = Len(t[3].variable)
    /\ t[2].variable[1] = t[1].variable[1]
    /\ t[3].variable[1] = t[1].variable[1] + 1
    /\ t[2].value = t[3].value

Count(t) ==
    Cardinality({i \in 1..Len(csp.constraints) : csp.constraints[i] = t})

\* C12: every precondition and every effect of a non-no-op action at every
\* step has exactly one constraint of length 2, and no constraint that
\* starts with an action choice is anything but such a pair or a frame
\* axiom.
C12_Binary ==
    Encoded =>
        /\ \A t \in BinaryConstraints : Count(t) = 1
        /\ \A i \in 1..Len(csp.constraints) :
              HasAct(csp.constraints[i][1].variable)
                 => \/ csp.constraints[i] \in BinaryConstraints
                    \/ FrameShaped(csp.constraints[i])

\* The state variable x one step later.
NextStep(x) == <<x[1] + 1>> \o Tail(x)

\* The frame axioms the problem calls for: action a at step j leaves the
\* state variable x, which its effects do not touch, at value v.
FrameTuples ==
    UNION {
        {<<Assignment(<<c[2], "act">>, c[1].name), Assignment(c[3], v),
           Assignment(NextStep(c[3]), v)>> :
            v \in csp.domains[c[3]]}
        : c \in {d \in ActionList \X (0..(plan_length - 1)) \X EncVariables :
                    /\ ~NoOpAction(d[1])
                    /\ ~HasAct(d[3])
                    /\ d[3][1] = d[2]
                    /\ d[3] \notin EffectVars(d[1], d[2])}}

\* C13: every frame axiom (action, step, untouched state variable, value)
\* is in csp.constraints as a tuple of length 3.
C13_FrameEmitted ==
    Encoded =>
        \A t \in FrameTuples :
            \E i \in 1..Len(csp.constraints) : csp.constraints[i] = t

\* A variable of the static relation.
StaticVar(v) == \E i \in 2..Len(v) : v[i] = "adjacent"

\* C14: the encoder makes no variable and no domain entry for the static
\* relation, and no constraint assigns a variable of it.
C14_StaticExcluded ==
    Encoded =>
        /\ \A v \in EncVariables \cup DOMAIN csp.domains : ~StaticVar(v)
        /\ \A i \in 1..Len(csp.constraints) :
              \A k \in 1..Len(csp.constraints[i]) :
                 ~StaticVar(csp.constraints[i][k].variable)

\* C15: no step of the filtering search, from its call to its return,
\* changes the variables, the domains or the constraints of the CSP.
C15_ReadOnly == [][(pc \in {"solved", "filter"}) => (csp' = csp)]_vars

--------------------------------------------------------------------------
(* Assignment objects on their own.  The class defines neither __eq__ nor  *)
(* __hash__: it has object's, which compare and hash the object itself.    *)
(* An object is known by its place in `objects`.                           *)

MaxObjects == 2

ObjVariables == {<<0, "p">>, <<1, "p">>}
ObjValues == {"True", "False"}

\* a == b for two Assignment objects: object.__eq__, the same object.
AssignmentEq(a, b) == a = b

\* hash(a): object.__hash__, which tells any two live objects apart.
AssignmentHash(a) == a

\* `a in t` for a tuple t of objects: some element is a, or equals a.
AssignmentIn(a, t) == \E k \in 1..Len(t) : t[k] = a \/ AssignmentEq(t[k], a)

InitAssignment ==
    /\ planning_problem = NoProblem
    /\ plan_length = 0
    /\ csp = NoCSP
    /\ pc = "objects"
    /\ solver = NoCSP
    /\ next_constr = 1
    /\ order = <<>>
    /\ stack = <<>>
    /\ result = "running"
    /\ solution = <<>>
    /\ assignments = <<>>
    /\ bt_stack = <<>>
    /\ bt_result = "running"
    /\ failed_branch = [seen |-> FALSE, before |-> Snapshot(<<>>, {}),
                        after |-> Snapshot(<<>>, {})]
    /\ objects = <<>>
    /\ tested = NoTest

\* assgn = Assignment(); assgn.variable = variable; assgn.value = value
NewAssignment ==
    /\ pc = "objects"
    /\ Len(objects) < MaxObjects
    /\ \E variable \in ObjVariables, value \in ObjValues :
          objects' = Append(objects, Assignment(variable, value))
    /\ tested' = NoTest
    /\ UNCHANGED <<input, csp, pc, naive, filter>>

\* Assignment(variable, value): __init__ takes no argument but self.
FreshAssignment ==
    /\ pc = "objects"
    /\ \E variable \in ObjVariables, value \in ObjValues :
          tested' = [kind |-> "TypeError"]
    /\ UNCHANGED <<input, csp, pc, naive, filter, objects>>

\* a == b and hash(a) == hash(b)
CompareAssignments ==
    /\ pc = "objects"
    /\ \E a, b \in 1..Len(objects) :
          tested' = [kind |-> "eq", a |-> a, b |-> b,
                     eq |-> AssignmentEq(a, b),
                     hash_eq |-> AssignmentHash(a) = AssignmentHash(b)]
    /\ UNCHANGED <<input, csp, pc, naive, filter, objects>>

\* pair[0] in constraint, the constraint a tuple of one object
MemberAssignment ==
    /\ pc = "objects"
    /\ \E a, b \in 1..Len(objects) :
          tested' = [kind |-> "in", a |-> a, b |-> b,
                     found |-> AssignmentIn(a, <<b>>)]
    /\ UNCHANGED <<input, csp, pc, naive, filter, objects>>

NextAssignment ==
    \/ NewAssignment
    \/ FreshAssignment
    \/ CompareAssignments
    \/ MemberAssignment

SpecAssignment == InitAssignment /\ [][NextAssignment]_vars

\* Two objects hold the same variable and the same value.
SameContents(a, b) ==
    /\ objects[a].variable = objects[b].variable
    /\ objects[a].value = objects[b].value

\* C16: two Assignment objects are equal exactly when their variables and
\* their values are, equal ones hash equally, and an object is found in a
\* tuple exactly when the tuple holds one with its variable and value.
C16_Structural ==
    /\ tested.kind = "eq" =>
          /\ tested.eq = SameContents(tested.a, tested.b)
          /\ tested.eq => tested.hash_eq
          /\ SameContents(tested.a, tested.b) => tested.hash_eq
    /\ tested.kind = "in" => tested.found = SameContents(tested.a, tested.b)

--------------------------------------------------------------------------
(* csp.py handed a faulty configuration: a variable without a domain, a   *)
(* tuple that names a variable the CSP does not have.                     *)

CfgUnknown == <<2, "x">>

CfgAssignments ==
    {Assignment(<<0, "act">>, "a"), Assignment(<<0, "x">>, "True"),
     Assignment(<<1, "x">>, "True"), Assignment(CfgUnknown, "True")}

CfgTuples ==
    {<<a>> : a \in CfgAssignments}
    \cup {t \in CfgAssignments \X CfgAssignments :
             t[1].variable # t[2].variable}
    \cup {t \in CfgAssignments \X CfgAssignments \X CfgAssignments :
             /\ HasAct(t[1].variable)
             /\ ~HasAct(t[2].variable) /\ ~HasAct(t[3].variable)
             /\ t[2].variable # t[3].variable}

CfgConstraintLists == UNION {[1..n -> CfgTuples] : n \in 0..MaxConstraints}

\* Domain maps that give some of the variables no entry.
CfgDomains == {[v \in S |-> CspDomains[v]] : S \in SUBSET CspVariables}

InitConfig ==
    /\ planning_problem = NoProblem
    /\ plan_length = 0
    /\ csp \in {[variables |-> CspVariables, domains |-> d,
                  constraints |-> cs] :
                    d \in CfgDomains, cs \in CfgConstraintLists}
    /\ pc = "construct"
    /\ solver = NoCSP
    /\ next_constr = 1
    /\ order = <<>>
    /\ stack = <<>>
    /\ result = "running"
    /\ solution = <<>>
    /\ assignments = <<>>
    /\ bt_stack = <<>>
    /\ bt_result = "running"
    /\ failed_branch = [seen |-> FALSE, before |-> Snapshot(<<>>, {}),
                        after |-> Snapshot(<<>>, {})]
    /\ objects = <<>>
    /\ tested = NoTest

SpecConfig == InitConfig /\ [][NextCsp]_vars

\* The tuples the __main__ loop has handed to add_constraint so far.
Handed == {i \in 1..(next_constr - 1) : Len(csp.constraints[i]) \in 1..3}

\* C17: CSP.__init__ raises LookupError when a variable has no domain, and
\* add_constraint raises LookupError when the constraint names a variable
\* the CSP does not have; the run stops there.
C17_Aborts ==
    /\ (/\ pc # "construct"
        /\ \E v \in csp.variables : v \notin DOMAIN csp.domains)
          => pc = "solved" /\ result = "LookupError" /\ next_constr = 1
    /\ \A i \in Handed :
          (\E k \in 1..Len(csp.constraints[i]) :
               csp.constraints[i][k].variable \notin solver.variables)
             => pc = "solved" /\ result = "LookupError" /\ next_constr = i + 1

C17_Witness ==
    /\ pc = "solved" /\ result = "LookupError"
    /\ next_constr = 3
    /\ csp.constraints[2][1].variable \in solver.variables
    /\ csp.constraints[2][2].variable \notin solver.variables
    /\ solver.constraints[csp.constraints[2][1].variable] # <<>>

--------------------------------------------------------------------------
(* Constraint.satisfied on its own: one constraint registered with         *)
(* add_constraint, then asked about one of its variables under an          *)
(* assignment that gives that variable a value.                            *)

\* Every dictionary that maps some of the variables to values of their
\* domains.
CspPartials ==
    UNION {{f \in [S -> {"a", "b", "True", "False"}] :
               \A v \in S : f[v] \in CspDomains[v]} : S \in SUBSET CspVariables}

InitSatisfied ==
    /\ planning_problem = NoProblem
    /\ plan_length = 0
    /\ csp \in {[variables |-> CspVariables, domains |-> CspDomains,
                  constraints |-> <<t>>] : t \in CspTuples}
    /\ pc = "construct"
    /\ solver = NoCSP
    /\ next_constr = 1
    /\ order = <<>>
    /\ stack = <<>>
    /\ result = "running"
    /\ solution = <<>>
    /\ assignments = <<>>
    /\ bt_stack = <<>>
    /\ bt_result = "running"
    /\ failed_branch = [seen |-> FALSE, before |-> Snapshot(<<>>, {}),
                        after |-> Snapshot(<<>>, {})]
    /\ objects = <<>>
    /\ tested = NoTest

\* constraint.satisfied(assignment, variable), as CSP.consistent calls it:
\* for a constraint registered under the variable, which is assigned.
SatisfiedCall ==
    /\ pc = "dispatch"
    /\ next_constr > Len(csp.constraints)
    /\ \E variable \in solver.variables, assignment \in CspPartials :
          /\ variable \in DOMAIN assignment
          /\ \E i \in 1..Len(solver.constraints[variable]) :
                tested' =
                   [kind |-> "satisfied",
                    constraint |-> solver.constraints[variable][i],
                    assignments |-> assignment,
                    variable |-> variable,
                    result |-> satisfied(solver.constraints[variable][i],
                                         assignment, variable)]
    /\ UNCHANGED <<input, csp, pc, naive, filter, objects>>

NextSatisfied ==
    \/ Construct
    \/ AddConstraint
    \/ SatisfiedCall

SpecSatisfied == InitSatisfied /\ [][NextSatisfied]_vars

\* The i-th assignment of the constraint last asked is assigned its value,
\* is assigned another value, is not assigned.
Matches(i) ==
    /\ tested.constraint.constraints[i].variable \in DOMAIN tested.assignments
    /\ tested.assignments[tested.constraint.constraints[i].variable]
          = tested.constraint.constraints[i].value
Differs(i) ==
    /\ tested.constraint.constraints[i].variable \in DOMAIN tested.assignments
    /\ tested.assignments[tested.constraint.constraints[i].variable]
          # tested.constraint.constraints[i].value
Asked(kind) == tested.kind = "satisfied" /\ tested.constraint.kind = kind

\* C18: asked about the before or the after variable with action, before
\* and after all assigned, a frame axiom is unsatisfied exactly when the
\* action and the before value match and the after value differs.
C18_FrameSemantics ==
    /\ Asked("FrameAxioms")
    /\ tested.variable \in {tested.constraint.variables[2],
                            tested.constraint.variables[3]}
    /\ \A i \in 1..3 : Matches(i) \/ Differs(i)
    => tested.result = ~(Matches(1) /\ Matches(2) /\ Differs(3))

\* C19: asked about the variable of the action assignment or of the
\* consequence, an ActionsConstraint is unsatisfied exactly when the action
\* variable is assigned the constrained action and the consequence variable
\* is assigned another value than the required one.
C19_ActionSemantics ==
    /\ Asked("Actions")
    /\ tested.variable \in {tested.constraint.variables[1],
                            tested.constraint.variables[2]}
    => tested.result = ~(Matches(1) /\ Differs(2))

C19_Witness ==
    /\ Asked("Actions")
    /\ tested.variable = tested.constraint.variables[2]
    /\ Matches(1) /\ Differs(2)
    /\ ~tested.result

--------------------------------------------------------------------------
(* backtracking_search run to its end, on CSPs whose tuples are 1-tuples   *)
(* or start with an action assignment, the action's domain empty or not.   *)

SearchTuples == {t \in CspTuples : Len(t) = 1 \/ HasAct(t[1].variable)}

SearchConstraintLists ==
    UNION {[1..n -> SearchTuples] : n \in 0..MaxConstraints}

SearchDomains == {CspDomains, [CspDomains EXCEPT ![<<0, "act">>] = {}]}

InitSearch ==
    /\ planning_problem = NoProblem
    /\ plan_length = 0
    /\ csp \in {[variables |-> CspVariables, domains |-> d,
                  constraints |-> cs] :
                    d \in SearchDomains, cs \in SearchConstraintLists}
    /\ pc = "construct"
    /\ solver = NoCSP
    /\ next_constr = 1
    /\ order = <<>>
    /\ stack = <<>>
    /\ result = "running"
    /\ solution = <<>>
    /\ assignments = <<>>
    /\ bt_stack = <<>>
    /\ bt_result = "running"
    /\ failed_branch = [seen |-> FALSE, before |-> Snapshot(<<>>, {}),
                        after |-> Snapshot(<<>>, {})]
    /\ objects = <<>>
    /\ tested = NoTest

\* The interpreter runs the program on: a step that can be taken is taken.
FairSpecSearch == InitSearch /\ [][NextCsp]_vars /\ WF_vars(NextCsp)

\* C20: backtracking_search({}) terminates, with None when every branch
\* has failed and never with an exception, and an assignment it returns
\* gives every variable of the CSP a value of its domain.
C20_Terminates ==
    /\ <>(pc = "solved" /\ result \in {"solution", "None"})
    /\ [](result = "solution" =>
            /\ DOMAIN solution = solver.variables
            /\ \A v \in solver.variables : solution[v] \in solver.domains[v])

C20_Witness ==
    /\ pc = "solved" /\ result = "None"
    /\ next_constr = 3

--------------------------------------------------------------------------
(* add_constraint that raises: what it leaves in the constraint lists.    *)

\* The pass of the __main__ loop that raises LookupError in add_constraint.
Rejected == pc = "dispatch" /\ result' = "LookupError"

\* C21: add_constraint is all-or-nothing: when it raises LookupError the
\* per-variable constraint lists are what they were before the call, so
\* the rejected constraint is registered under none of its variables.
C21_AllOrNothing ==
    [][(Rejected) => (solver'.constraints = solver.constraints)]_vars

--------------------------------------------------------------------------
(* The order in which backtracking_search gives the variables values.     *)

\* The dictionaries the active calls of backtracking_search hold: the
\* assignment each was entered with, and that assignment extended with the
\* call's variable `first` (local_assignment).
SearchAssignments ==
    {DOMAIN stack[i].assignment : i \in 1..Len(stack)}
    \cup {DOMAIN stack[i].assignment \cup {stack[i].first} :
             i \in 1..Len(stack)}

\* No variable of an earlier step is left out of the dictionary.
TimestepOrdered(assigned) ==
    \A v \in assigned :
        \A w \in solver.variables : w[1] < v[1] => w \in assigned

\* The constraints registered in the CSP whose first variable is the
\* action variable of a step.
ActionLed ==
    {c \in UNION {{solver.constraints[v][k] :
                      k \in 1..Len(solver.constraints[v])} :
                  v \in solver.variables} :
        HasAct(c.variables[1])}

\* C22: backtracking_search assigns variables in non-decreasing step
\* order: in every search state an assigned variable of step t has every
\* variable of a smaller step assigned too; so a variable of step j+1 in a
\* constraint led by (j, 'act') is assigned only once (j, 'act') and all
\* the variables of step j are.
C22_TimestepOrder ==
    pc = "search" =>
        /\ \A assigned \in SearchAssignments : TimestepOrdered(assigned)
        /\ \A assigned \in SearchAssignments :
              \A c \in ActionLed :
                 \A n \in 2..Len(c.variables) :
                    (/\ c.variables[n] \in assigned
                     /\ c.variables[n][1] = c.variables[1][1] + 1)
                       => /\ c.variables[1] \in assigned
                          /\ \A w \in solver.variables :
                                w[1] = c.variables[1][1] => w \in assigned

\* A call that gives the step-1 variable a value after both step-0
\* variables, a frame axiom over the three being registered.
C22_Witness ==
    /\ pc = "search"
    /\ Len(stack) = 3
    /\ stack[3].first = <<1, "x">>
    /\ DOMAIN stack[3].assignment = {<<0, "act">>, <<0, "x">>}
    /\ \E c \in ActionLed :
          /\ c.kind = "FrameAxioms"
          /\ c.variables = <<<<0, "act">>, <<0, "x">>, <<1, "x">>>>
====
